---- MODULE Spec2Model ----
(***************************************************************************)
(* A model of simple_nvr (src/nvr.py): the recording supervisor            *)
(* (VideoRecorder.record_streams and monitor_processes), its shutdown      *)
(* path, the retention pass (clean_camera_folders) with its single-flight  *)
(* trigger, and the configuration reload.                                  *)
(*                                                                         *)
(* Threads of the program and where they live in the model:                *)
(*   main thread      - the Cycle* actions (record_streams), preempted by  *)
(*                      the signal handler (Signal, ShutdownCleanup,       *)
(*                      ShutdownForceKill)                                 *)
(*   monitor thread   - the Monitor* actions (monitor_processes)           *)
(*   cleanup worker   - WorkerFinish (Spec) and the Ret* actions           *)
(*                      (SpecRetention, SpecPrune, SpecPass)               *)
(*   watchdog thread  - the Edit* and Reload* actions (SpecReload,         *)
(*                      SpecSchedule, SpecDisable)                         *)
(*   constructor/main - BuildQuotas (SpecCatalog), StartupCycle            *)
(*                      (SpecBoundary)                                     *)
(*   the encoders     - ProcExit; wall-clock time - Tick                   *)
(*                                                                         *)
(* Time is counted in ticks, TicksPerSec ticks to the second, so that a    *)
(* remaining time can be a fraction of a second and int() truncates.       *)
(***************************************************************************)
EXTENDS Integers, Sequences, FiniteSets, TLC

\* ------------------------------------------------------------ bounds
MaxProcs == 3
MaxCycles == 2
MaxNow == 2
TicksPerSec == 2
MaxReloads == 1
MaxFiles == 3
MaxSize == 2
MaxQuota == 3
MaxUris == 2
MaxDirs == 2
MaxPassFiles == 2

\* ------------------------------------------------- program constants
\* monitor_processes(check_interval=5, restart_threshold=5)
RestartThreshold == 5

\* clean_camera_folders(min_age_seconds=3600)
MinAge == 3600

\* The duration of the cycles of the model: the start-up cycle of main,
\* int(remaining_time), begun six seconds before the boundary
ModelDuration == RestartThreshold + 1

\* ------------------------------------------------------- value spaces
StreamNames == {"cam1", "cam2"}

NoKey == 0 - 1

\* The value of a directive of a fragment: the key is absent, or present
\* with an empty value, a non-numeric text or a number
Absent == [kind |-> "absent", n |-> 0]
Empty == [kind |-> "empty", n |-> 0]
Text == [kind |-> "text", n |-> 0]
Num(n) == [kind |-> "num", n |-> n]

\* An address of a stream: its scheme and host, and the quota directives
\* rec_size, record_size and rec of its fragment.
UriWith(scheme, host, recsize, recordsize, rec) ==
    [scheme |-> scheme, host |-> host, rec_size |-> recsize,
     record_size |-> recordsize, rec |-> rec]

Uri(scheme, host, recsize, rec) == UriWith(scheme, host, recsize, Absent, rec)

\* The streams maps (go2rtc 'streams') the model loads: an ordered list of
\* (name, addresses), as a Python dict keeps its keys.
CatalogA ==
    << [name |-> "cam1", uris |-> << Uri("rtsp", "hostA1", Absent, Num(1)) >>],
       [name |-> "cam2", uris |-> << Uri("rtsp", "hostA2", Num(2), Num(1)) >>] >>

CatalogB ==
    << [name |-> "cam1", uris |-> << Uri("ffmpeg", "hostB1", Absent, Text),
                                     Uri("rtsp", "hostB1x", Absent, Num(0)) >>],
       [name |-> "cam2", uris |-> << Uri("rtsp", "hostB2", Absent, Num(3)) >>] >>

CatalogC ==
    << [name |-> "cam2", uris |-> << Uri("http", "hostC2", Absent, Num(1)) >>] >>

Catalogs == {CatalogA, CatalogB, CatalogC}

\* A file whose 'streams' value is a YAML list, not a mapping: it has
\* neither keys() nor items()
ListShaped == << [name |-> "", uris |-> << >>] >>

IsMapping(cat) == cat # ListShaped

\* ------------------------------------------------------------- state
VARIABLES
    clock,              \* wall-clock time, in ticks
    procs,              \* every encoder process launched so far
    active_processes,   \* self.active_processes
    process_lock,       \* owner of self.process_lock
    main_pc, cyc,       \* the main thread inside record_streams
    cycles,             \* cycles begun so far
    cyc_res,            \* what the running cycle did with each stream (its log)
    cyc_cfg,            \* the configuration in effect when the cycle began
    mon_pc, mon,        \* the monitor thread inside monitor_processes
    mon_log,            \* the monitor's last log line
    shut,               \* the signal handler: none, cleanup, sleep, exited
    cleanup_in_progress,\* self._cleanup_in_progress
    cleanup_workers,    \* live _worker threads
    trigger_log,        \* what the last _start_background_cleanup did
    base_dir, stream_server, target_size_gb, go2rtc_config_path,
    go2rtc_config, camera_quotas_gb,   \* the settings of VideoRecorder
    disk,               \* the configuration files on disk
    rel_pc,             \* the watchdog thread inside on_modified
    reloads,            \* file changes handled so far
    rel_prev,           \* the settings when the running reload began
    rel_log,            \* the watchdog thread's last log line
    files,              \* a stream directory: its files in listing order
    dirs,               \* the directories below the storage root
    pending,            \* the stream directories the pass has yet to visit
    ret_pc, ret         \* the cleanup worker inside clean_camera_folders

supVars == << clock, procs, active_processes, process_lock, main_pc, cyc,
              cycles, cyc_res, cyc_cfg, mon_pc, mon, mon_log, shut,
              cleanup_in_progress, cleanup_workers, trigger_log >>
supVarsButMain == << clock, procs, active_processes, process_lock, cyc,
                     cycles, cyc_res, cyc_cfg, mon_pc, mon, mon_log, shut,
                     cleanup_in_progress, cleanup_workers, trigger_log >>
cfgVars == << base_dir, stream_server, target_size_gb, go2rtc_config_path,
              go2rtc_config, camera_quotas_gb >>
relVars == << disk, rel_pc, reloads, rel_prev, rel_log >>
retVars == << files, dirs, pending, ret_pc, ret >>
vars == << supVars, cfgVars, relVars, retVars >>

\* ------------------------------------------------- the stream catalog
Max(a, b) == IF a >= b THEN a ELSE b

\* _parse_number: a float, or None
ParseNumber(v) == IF v.kind = "num" THEN v ELSE Absent

\* a or b, on Optional[str]: None and '' are false
PickOr(a, b) == IF a.kind \in {"absent", "empty"} THEN b ELSE a

\* A variant that reads rec before the size directives
ParseRecFirst(u) ==
    LET n1 == ParseNumber(u.rec)
        n  == IF n1.kind = "num" THEN n1
              ELSE ParseNumber(PickOr(u.rec_size, u.record_size))
    IN  IF n.kind = "num" THEN Max(0, n.n) ELSE 0

\* parse_rec_from_uri (lines 69-85): rec_size, or record_size in its place,
\* is parsed first, then rec if that gave no number; never below 0
ParseRecFromUri(u) ==
    LET rec_size_val == PickOr(u.rec_size, u.record_size)
        n1 == ParseNumber(rec_size_val)
        n  == IF n1.kind = "num" THEN n1 ELSE ParseNumber(u.rec)
    IN  IF n.kind = "num" THEN Max(0, n.n) ELSE 0

RECURSIVE FirstPositive(_)
FirstPositive(uris) ==
    IF uris = << >> THEN 0
    ELSE IF ParseRecFromUri(Head(uris)) > 0 THEN ParseRecFromUri(Head(uris))
    ELSE FirstPositive(Tail(uris))

CatalogNames(cat) == {cat[i].name : i \in 1..Len(cat)}

CatalogUris(cat, name) ==
    LET i == CHOOSE i \in 1..Len(cat) : cat[i].name = name IN cat[i].uris

\* _build_camera_quotas: name -> quota, NoKey for a name the map lacks
BuildCameraQuotas(cat) ==
    [s \in StreamNames |->
        IF s \in CatalogNames(cat) THEN FirstPositive(CatalogUris(cat, s))
        ELSE NoKey]

\* dict.get(name, default)
QuotaGet(quotas, name, default) ==
    IF quotas[name] = NoKey THEN default ELSE quotas[name]

AcceptedSchemes == {"rtsp", "rtsps", "http", "https"}

\* A variant that takes the first address whatever its scheme
ChooseFirstAddress(cat, server, name) ==
    LET fallback == [via |-> "fallback", addr |-> server, name |-> name]
    IN  IF name \notin CatalogNames(cat) \/ CatalogUris(cat, name) = << >>
        THEN fallback
        ELSE [via |-> "uri", addr |-> Head(CatalogUris(cat, name)).host,
              name |-> ""]

\* _choose_input_url: the first address of the list if its scheme is
\* accepted, else the fallback stream_server/name
ChooseInputUrl(cat, server, name) ==
    LET fallback == [via |-> "fallback", addr |-> server, name |-> name]
    IN  IF name \notin CatalogNames(cat) THEN fallback
        ELSE LET uris == CatalogUris(cat, name)
             IN  IF uris # << >> /\ Head(uris).scheme \in AcceptedSchemes
                 THEN [via |-> "uri", addr |-> Head(uris).host, name |-> ""]
                 ELSE fallback

\* streams.keys(), in the dict's order
StreamKeys(cat) == [i \in 1..Len(cat) |-> cat[i].name]


\* --------------------------------------------------------- processes
NoEntry == [process |-> 0, start_time |-> 0, duration |-> 0]

ProcIds == 1..Len(procs)

\* proc.poll() is not None
Exited(p) == ~procs[p].alive

HasEntry(a, s) == a[s].process # 0

LiveProcs(s) == {p \in ProcIds : procs[p].stream = s /\ procs[p].alive}

TicksPerMinute == 60 * TicksPerSec

\* now.minute
MinuteOf(now) == now \div TicksPerMinute

\* subprocess.Popen in _start_recording_for_stream: the new process, with
\* the output directory and the input address of the settings read now;
\* its output file is named after the minute of the launch (lines 234-239)
NewProc(s, duration) ==
    [stream |-> s, alive |-> TRUE, sig |-> "none", duration |-> duration,
     input |-> ChooseInputUrl(go2rtc_config, stream_server, s),
     root |-> base_dir, stamp |-> MinuteOf(clock)]

\* os.killpg(..., SIGTERM): the signal reaches a live process
SendTerm(ps, p) ==
    IF ps[p].alive THEN [ps EXCEPT ![p].sig = "term"] ELSE ps

\* os.killpg(..., SIGKILL): a live process dies
SendKill(ps, p) ==
    IF ps[p].alive
    THEN [ps EXCEPT ![p].sig = "kill", ![p].alive = FALSE]
    ELSE ps

\* _prune_finished_processes: drop every entry whose process has exited
PruneFinished(a) ==
    [s \in StreamNames |->
        IF HasEntry(a, s) /\ Exited(a[s].process) THEN NoEntry ELSE a[s]]

\* An encoder exits by itself: its -t duration is over, its input failed,
\* or it has handled a termination signal.
ProcExit ==
    \E p \in ProcIds :
        /\ procs[p].alive
        /\ procs' = [procs EXCEPT ![p].alive = FALSE]
        /\ UNCHANGED << clock, active_processes, process_lock, main_pc, cyc,
                        cycles, cyc_res, cyc_cfg, mon_pc, mon, mon_log, shut,
                        cleanup_in_progress, cleanup_workers, trigger_log >>
        /\ UNCHANGED << cfgVars, relVars, retVars >>

Tick ==
    /\ clock < MaxNow
    /\ clock' = clock + 1
    /\ UNCHANGED << procs, active_processes, process_lock, main_pc, cyc,
                    cycles, cyc_res, cyc_cfg, mon_pc, mon, mon_log, shut,
                    cleanup_in_progress, cleanup_workers, trigger_log >>
    /\ UNCHANGED << cfgVars, relVars, retVars >>

\* ----------------------------------------------------- record_streams
NoRes == [r |-> "none", p |-> 0]
NoCyc == [now |-> 0, duration |-> 0, streams |-> << >>, i |-> 0, proc |-> 0]

Settings ==
    [base_dir |-> base_dir, stream_server |-> stream_server,
     target_size_gb |-> target_size_gb,
     go2rtc_config_path |-> go2rtc_config_path,
     go2rtc_config |-> go2rtc_config, camera_quotas_gb |-> camera_quotas_gb]

CycStream == cyc.streams[cyc.i]

\* A scheduler that goes on while the handler runs
MainRunsAlways == TRUE

\* The main thread runs record_streams unless the signal handler has
\* preempted it.
MainRuns == shut = "none"

monUnch == UNCHANGED << mon_pc, mon, mon_log >>
cleanUnch == UNCHANGED << cleanup_in_progress, cleanup_workers, trigger_log >>
otherUnch == UNCHANGED << cfgVars, relVars, retVars >>

\* lines 336-342: now and the streams map are read once, at the top, and
\* the finished entries pruned
CycleBeginWith(duration) ==
    /\ MainRuns /\ main_pc = "idle" /\ cycles < MaxCycles
    /\ process_lock = "free"
    /\ IsMapping(go2rtc_config)
    /\ cycles' = cycles + 1
    /\ cyc' = [now |-> clock, duration |-> duration,
               streams |-> StreamKeys(go2rtc_config), i |-> 1, proc |-> 0]
    /\ cyc_res' = [s \in StreamNames |-> NoRes]
    /\ trigger_log' = "none"
    /\ cyc_cfg' = Settings
    /\ active_processes' = PruneFinished(active_processes)
    /\ main_pc' = "next"
    /\ UNCHANGED << clock, procs, process_lock, shut, cleanup_in_progress,
                    cleanup_workers >>
    /\ monUnch /\ otherUnch

CycleBegin == CycleBeginWith(ModelDuration)

\* lines 337-346 on a streams value without keys(): the prune is done, then
\* line 346 raises outside every try of record_streams. From the start-up
\* call (line 668) the exception ends main; from schedule.run_pending()
\* it reaches the except of lines 672-675, which calls handle_termination.
CycleRaises ==
    /\ MainRuns /\ main_pc = "idle" /\ cycles < MaxCycles
    /\ process_lock = "free"
    /\ ~IsMapping(go2rtc_config)
    /\ cycles' = cycles + 1
    /\ active_processes' = PruneFinished(active_processes)
    /\ main_pc' = "raised"
    /\ shut' = IF cycles = 0 THEN "exited" ELSE "cleanup"
    /\ UNCHANGED << clock, procs, process_lock, cyc, cyc_res, cyc_cfg,
                    cleanup_in_progress, cleanup_workers, trigger_log >>
    /\ monUnch /\ otherUnch

\* A trigger that does not look at the flag before starting a worker
StartBackgroundCleanupUnguarded ==
    /\ cleanup_in_progress' = TRUE
    /\ cleanup_workers' = cleanup_workers + 1
    /\ trigger_log' = "spawned"

\* _start_background_cleanup (lines 441-462): a no-op while a pass is in
\* flight; else the flag is set and the worker thread started, which may
\* raise
StartBackgroundCleanup ==
    IF cleanup_in_progress
    THEN /\ trigger_log' = "noop"
         /\ UNCHANGED << cleanup_in_progress, cleanup_workers >>
    ELSE /\ cleanup_in_progress' = TRUE
         /\ \E started \in BOOLEAN :
              IF started
              THEN /\ cleanup_workers' = cleanup_workers + 1
                   /\ trigger_log' = "spawned"
              ELSE /\ trigger_log' = "spawn_raised"
                   /\ UNCHANGED cleanup_workers

\* lines 382-390: the loop is over; retention is triggered and a copy of
\* the map returned
CycleFinish ==
    /\ StartBackgroundCleanup
    /\ main_pc' = "idle"
    /\ cyc' = NoCyc
    /\ cyc_res' = [s \in StreamNames |-> NoRes]
    /\ UNCHANGED << active_processes, process_lock >>

\* lines 348-351: a stream whose quota, read from self.camera_quotas_gb
\* now, is not positive is skipped
CycleSkip ==
    /\ cyc' = [cyc EXCEPT !.i = @ + 1]
    /\ cyc_res' = [cyc_res EXCEPT ![CycStream] = [r |-> "skipped", p |-> 0]]
    /\ UNCHANGED << main_pc, active_processes, process_lock,
                    cleanup_in_progress, cleanup_workers, trigger_log >>

\* lines 354-358: under the lock, look for a live process of the stream;
\* the lock is kept while that process is terminated
CycleExisting ==
    /\ process_lock = "free"
    /\ IF HasEntry(active_processes, CycStream)
          /\ ~Exited(active_processes[CycStream].process)
       THEN /\ process_lock' = "main"
            /\ main_pc' = "term"
       ELSE /\ main_pc' = "launch"
            /\ UNCHANGED process_lock
    /\ UNCHANGED << cyc, cyc_res, active_processes,
                    cleanup_in_progress, cleanup_workers, trigger_log >>

\* lines 346-358 and 382-390: the next turn of the loop over the streams
CycleNext ==
    /\ MainRuns /\ main_pc = "next"
    /\ IF cyc.i > Len(cyc.streams) THEN CycleFinish
       ELSE IF QuotaGet(camera_quotas_gb, CycStream, 0) <= 0 THEN CycleSkip
       ELSE CycleExisting
    /\ UNCHANGED << clock, procs, cycles, cyc_cfg, shut >>
    /\ monUnch /\ otherUnch

\* lines 305-311: SIGTERM to the process group
CycleTerm ==
    /\ MainRuns /\ main_pc = "term"
    /\ procs' = SendTerm(procs, active_processes[CycStream].process)
    /\ main_pc' = "grace"
    /\ UNCHANGED << clock, active_processes, process_lock, cyc, cycles, cyc_res, cyc_cfg, shut >>
    /\ monUnch /\ cleanUnch /\ otherUnch

\* lines 314-328 and 365: the process is seen exited within the grace
\* second, or the grace is over and a process still alive is sent SIGKILL,
\* which kills it unless killpg raises (lines 325-328); then the entry is
\* popped, whatever the outcome, and the lock released
CycleGrace ==
    /\ MainRuns /\ main_pc = "grace"
    /\ \E delivered \in BOOLEAN :
         procs' = IF delivered
                  THEN SendKill(procs, active_processes[CycStream].process)
                  ELSE procs
    /\ active_processes' = [active_processes EXCEPT ![CycStream] = NoEntry]
    /\ process_lock' = "free"
    /\ main_pc' = "launch"
    /\ UNCHANGED << clock, cyc, cycles, cyc_res, cyc_cfg, shut >>
    /\ monUnch /\ cleanUnch /\ otherUnch

\* A failed start that gives up the rest of the cycle
CycleStartAborts(p) ==
    /\ cyc' = [cyc EXCEPT !.i = Len(cyc.streams) + 1, !.proc = 0]
    /\ cyc_res' = [cyc_res EXCEPT ![CycStream] = [r |-> "failed", p |-> p]]
    /\ main_pc' = "next"

\* What a start does when no process results: the stream is skipped
\* (lines 368-370, and 379-380 when _start_recording_for_stream raised)
CycleStartFailed(p) ==
    /\ cyc' = [cyc EXCEPT !.i = @ + 1, !.proc = 0]
    /\ cyc_res' = [cyc_res EXCEPT ![CycStream] = [r |-> "failed", p |-> p]]
    /\ main_pc' = "next"

\* lines 234-271: mkdir and Popen; either may raise, and so does
\* _choose_input_url (line 206) on a streams value that is no mapping
CycleLaunch ==
    /\ MainRuns /\ main_pc = "launch"
    /\ \E outcome \in {"started", "popen_raised", "mkdir_raised"} :
        IF outcome = "started"
        THEN /\ Len(procs) < MaxProcs
             /\ IsMapping(go2rtc_config)
             /\ procs' = Append(procs, NewProc(CycStream, cyc.duration))
             /\ cyc' = [cyc EXCEPT !.proc = Len(procs) + 1]
             /\ main_pc' = "poll"
             /\ UNCHANGED cyc_res
        ELSE /\ CycleStartFailed(0)
             /\ UNCHANGED procs
    /\ UNCHANGED << clock, active_processes, process_lock, cycles, cyc_cfg, shut >>
    /\ monUnch /\ cleanUnch /\ otherUnch

\* lines 372-378: the handle of a started process is stored under the lock
CycleStore ==
    /\ process_lock = "free"
    /\ active_processes' = [active_processes EXCEPT ![CycStream] =
            [process |-> cyc.proc, start_time |-> cyc.now, duration |-> cyc.duration]]
    /\ cyc_res' = [cyc_res EXCEPT ![CycStream] = [r |-> "stored", p |-> cyc.proc]]
    /\ cyc' = [cyc EXCEPT !.i = @ + 1, !.proc = 0]
    /\ main_pc' = "next"

\* lines 274-280 and 368-378: after 0.25 s a process that has exited is not
\* returned and the stream is skipped; one still alive is stored
CyclePoll ==
    /\ MainRuns /\ main_pc = "poll"
    /\ IF Exited(cyc.proc)
       THEN CycleStartFailed(cyc.proc) /\ UNCHANGED active_processes
       ELSE CycleStore
    /\ UNCHANGED << clock, procs, process_lock, cycles, cyc_cfg, shut >>
    /\ monUnch /\ cleanUnch /\ otherUnch

\* The _worker thread: clean_camera_folders has run, and the finally
\* clause clears the flag (lines 448-458)
WorkerFinish ==
    /\ shut # "exited"
    /\ cleanup_workers > 0
    /\ ret.cam = "" \/ ret_pc = "pruned"
    /\ cleanup_workers' = cleanup_workers - 1
    /\ cleanup_in_progress' = FALSE
    /\ UNCHANGED << clock, procs, active_processes, process_lock, main_pc, cyc,
                    cycles, cyc_res, cyc_cfg, shut, trigger_log >>
    /\ monUnch /\ otherUnch


\* -------------------------------------------------- monitor_processes
NoMon == [todo |-> {}, stream |-> "", remaining |-> 0, proc |-> 0]
NoLog == [msg |-> "none", stream |-> ""]

mainUnch == UNCHANGED << main_pc, cyc, cycles, cyc_res, cyc_cfg >>

\* (planned_end - now).total_seconds(), in ticks
RemainingTicks(info) == info.start_time + info.duration * TicksPerSec - clock

\* int(remaining): whole seconds, the fraction dropped
IntSeconds(ticks) == ticks \div TicksPerSec

\* A comparison that also restarts at exactly the threshold
AboveThresholdInclusive(ticks) == ticks >= RestartThreshold * TicksPerSec

\* remaining > restart_threshold
AboveThreshold(ticks) == ticks > RestartThreshold * TicksPerSec

\* lines 509-512
MonitorPrune ==
    /\ shut # "exited" /\ mon_pc = "prune" /\ process_lock = "free"
    /\ active_processes' = PruneFinished(active_processes)
    /\ mon_pc' = "lock"
    /\ UNCHANGED << clock, procs, process_lock, mon, mon_log, shut >>
    /\ mainUnch /\ cleanUnch /\ otherUnch

\* lines 514-515: the lock is taken for the whole loop over a copy of the
\* map's items
MonitorLock ==
    /\ shut # "exited" /\ mon_pc = "lock" /\ process_lock = "free"
    /\ process_lock' = "monitor"
    /\ mon' = [NoMon EXCEPT !.todo = {s \in StreamNames : HasEntry(active_processes, s)}]
    /\ mon_pc' = "loop"
    /\ UNCHANGED << clock, procs, active_processes, mon_log, shut >>
    /\ mainUnch /\ cleanUnch /\ otherUnch

\* lines 516-529 and 543-545: one item of the loop
MonitorCheck(s) ==
    LET info == active_processes[s]
        remaining == RemainingTicks(info)
    IN  /\ shut # "exited" /\ mon_pc = "loop" /\ s \in mon.todo
        /\ IF ~Exited(info.process)
           THEN /\ mon' = [mon EXCEPT !.todo = @ \ {s}]
                /\ UNCHANGED << active_processes, mon_pc, mon_log >>
           ELSE IF AboveThreshold(remaining)
                THEN /\ mon' = [mon EXCEPT !.stream = s,
                                           !.remaining = IntSeconds(remaining)]
                     /\ mon_pc' = "launch"
                     /\ mon_log' = [msg |-> "restarting", stream |-> s]
                     /\ UNCHANGED active_processes
                ELSE /\ active_processes' = [active_processes EXCEPT ![s] = NoEntry]
                     /\ mon' = [mon EXCEPT !.todo = @ \ {s}]
                     /\ mon_log' = [msg |-> "completed", stream |-> s]
                     /\ UNCHANGED mon_pc
        /\ UNCHANGED << clock, procs, process_lock, shut >>
        /\ mainUnch /\ cleanUnch /\ otherUnch

\* line 531, lines 234-271 with the lock held: Popen raising gives no
\* process and the entry is popped (538-540); mkdir raising is caught at
\* 541 and leaves the entry as it is
MonitorLaunch ==
    /\ shut # "exited" /\ mon_pc = "launch"
    /\ \E outcome \in {"started", "popen_raised", "mkdir_raised"} :
        IF outcome = "started"
        THEN /\ Len(procs) < MaxProcs
             /\ IsMapping(go2rtc_config)
             /\ procs' = Append(procs, NewProc(mon.stream, mon.remaining))
             /\ mon' = [mon EXCEPT !.proc = Len(procs) + 1]
             /\ mon_pc' = "poll"
             /\ UNCHANGED << active_processes, mon_log >>
        ELSE /\ active_processes' =
                    IF outcome = "popen_raised"
                    THEN [active_processes EXCEPT ![mon.stream] = NoEntry]
                    ELSE active_processes
             /\ mon_log' = [msg |-> IF outcome = "popen_raised"
                                    THEN "restart_failed" ELSE "restart_raised",
                            stream |-> mon.stream]
             /\ mon' = [mon EXCEPT !.todo = @ \ {mon.stream}, !.stream = "",
                                   !.remaining = 0]
             /\ mon_pc' = "loop"
             /\ UNCHANGED procs
    /\ UNCHANGED << clock, process_lock, shut >>
    /\ mainUnch /\ cleanUnch /\ otherUnch

\* lines 274-280 and 532-540: the new process replaces the entry, with a
\* fresh start time, unless it has exited within the 0.25 s
MonitorPoll ==
    /\ shut # "exited" /\ mon_pc = "poll"
    /\ IF Exited(mon.proc)
       THEN /\ active_processes' = [active_processes EXCEPT ![mon.stream] = NoEntry]
            /\ mon_log' = [msg |-> "restart_failed", stream |-> mon.stream]
       ELSE /\ active_processes' = [active_processes EXCEPT ![mon.stream] =
                    [process |-> mon.proc, start_time |-> clock,
                     duration |-> mon.remaining]]
            /\ mon_log' = [msg |-> "restarted", stream |-> mon.stream]
    /\ mon' = [mon EXCEPT !.todo = @ \ {mon.stream}, !.stream = "",
                          !.remaining = 0, !.proc = 0]
    /\ mon_pc' = "loop"
    /\ UNCHANGED << clock, procs, process_lock, shut >>
    /\ mainUnch /\ cleanUnch /\ otherUnch

\* line 546: the loop is over, the lock released, and the thread sleeps
MonitorUnlock ==
    /\ shut # "exited" /\ mon_pc = "loop" /\ mon.todo = {}
    /\ process_lock' = "free"
    /\ mon_pc' = "prune"
    /\ mon_log' = NoLog
    /\ UNCHANGED << clock, procs, active_processes, mon, shut >>
    /\ mainUnch /\ cleanUnch /\ otherUnch

\* -------------------------------------------------- handle_termination
InMap(a, p) == \E s \in StreamNames : a[s].process = p

\* SIGTERM to every live process of the map
TermAll(ps, a) ==
    [p \in DOMAIN ps |-> IF InMap(a, p) /\ ps[p].alive
                         THEN [ps[p] EXCEPT !.sig = "term"] ELSE ps[p]]

\* SIGKILL to every live process of the map
KillAll(ps, a) ==
    [p \in DOMAIN ps |-> IF InMap(a, p) /\ ps[p].alive
                         THEN [ps[p] EXCEPT !.sig = "kill", !.alive = FALSE]
                         ELSE ps[p]]

\* cleanup_processes (lines 464-479): each entry is popped, signalled or not
CleanupProcesses ==
    /\ procs' = TermAll(procs, active_processes)
    /\ active_processes' = [s \in StreamNames |-> NoEntry]

\* lines 489-500: the entries still in the map are killed and popped
ForceKillRemaining ==
    /\ procs' = KillAll(procs, active_processes)
    /\ active_processes' = [s \in StreamNames |-> NoEntry]

\* The jobs of lines 653-654 are scheduled until schedule.clear(), the
\* statement before exit(0) (lines 501-502)
JobsScheduled == shut # "exited"

\* SIGINT, SIGTERM or SIGHUP arrives: termination_handler runs in the main
\* thread, between two of its instructions
Signal ==
    /\ shut = "none"
    /\ shut' = "cleanup"
    /\ UNCHANGED << clock, procs, active_processes, process_lock >>
    /\ mainUnch /\ monUnch /\ cleanUnch /\ otherUnch

\* line 487
ShutdownCleanup ==
    /\ shut = "cleanup" /\ process_lock = "free"
    /\ CleanupProcesses
    /\ shut' = "sleep"
    /\ UNCHANGED << clock, process_lock >>
    /\ mainUnch /\ monUnch /\ cleanUnch /\ otherUnch

\* lines 488-502: after the 5 s, the second loop, schedule.clear() and exit
ShutdownForceKill ==
    /\ shut = "sleep" /\ process_lock = "free"
    /\ ForceKillRemaining
    /\ shut' = "exited"
    /\ UNCHANGED << clock, process_lock >>
    /\ mainUnch /\ monUnch /\ cleanUnch /\ otherUnch

\* --------------------------------------------------- the supervisor
InitSupervisorAt(now, pc, n) ==
    /\ clock = now
    /\ procs = << >>
    /\ active_processes = [s \in StreamNames |-> NoEntry]
    /\ process_lock = "free"
    /\ main_pc = pc /\ cyc = NoCyc /\ cycles = n
    /\ cyc_res = [s \in StreamNames |-> NoRes]
    /\ mon_pc = "prune" /\ mon = NoMon /\ mon_log = NoLog
    /\ shut = "none"

InitSupervisor == InitSupervisorAt(0, "idle", 0)

InitCleanupIdle ==
    /\ cleanup_in_progress = FALSE /\ cleanup_workers = 0
    /\ trigger_log = "none"

\* __init__ (lines 110-120) on a primary configuration naming one of the
\* streams maps
InitSettingsWith(cat, size) ==
    /\ base_dir = "/rec1"
    /\ stream_server = "rtsp://srv1"
    /\ target_size_gb = size
    /\ go2rtc_config_path = "g1.yaml"
    /\ go2rtc_config = cat
    /\ camera_quotas_gb = BuildCameraQuotas(cat)

InitSettings(cat) == InitSettingsWith(cat, 1)

\* What a configuration file on disk holds. A key a primary file lacks is
\* Missing; a file that cannot be opened or parsed is "unreadable".
Missing == ""
GoodFile(cat) == [state |-> "ok", streams |-> cat]
BadFile == [state |-> "unreadable", streams |-> << >>]
PrimaryFile(state, dir, server, size, path) ==
    [state |-> state, base_dir |-> dir, stream_server |-> server,
     target_size_gb |-> size, go2rtc_config_path |-> path]

Go2rtcPaths == {"g1.yaml", "g2.yaml"}

\* The files the settings were constructed from; the watchdog thread idle
InitIdleReload(cat) ==
    /\ disk = [primary |-> PrimaryFile("ok", base_dir, stream_server,
                                       Num(target_size_gb), go2rtc_config_path),
               go2rtc |-> [p \in Go2rtcPaths |-> GoodFile(cat)]]
    /\ rel_pc = "idle"
    /\ reloads = 0
    /\ rel_log = "none"

\* The storage root holds no stream directory.
NoRet == [cam |-> "", quota |-> 0, order |-> << >>, i |-> 0, to_free |-> 0,
          tried |-> {}, failed |-> {}, initial |-> << >>, skipped |-> FALSE,
          now |-> 0, seen |-> {}, visited |-> {}, errors |-> {}]

InitIdleRetention ==
    /\ files = << >>
    /\ dirs = {}
    /\ pending = << >>
    /\ ret_pc = "idle"
    /\ ret = NoRet

\* The supervisor after construction, on one of the streams maps of cats
InitOn(cats) ==
    /\ InitSupervisor /\ InitCleanupIdle
    /\ \E cat \in cats :
         /\ InitSettings(cat)
         /\ InitIdleReload(cat)
    /\ cyc_cfg = Settings
    /\ rel_prev = Settings

\* One stream is recorded and one is disabled.
Init == InitOn({CatalogB}) /\ InitIdleRetention

Next ==
    \/ CycleBegin \/ CycleNext \/ CycleTerm \/ CycleGrace \/ CycleLaunch
    \/ CyclePoll \/ WorkerFinish
    \/ MonitorPrune \/ MonitorLock \/ (\E s \in StreamNames : MonitorCheck(s))
    \/ MonitorLaunch \/ MonitorPoll \/ MonitorUnlock
    \/ ProcExit \/ Tick

Spec == Init /\ [][Next]_vars

NextShutdown ==
    \/ CycleBegin \/ CycleNext \/ CycleTerm \/ CycleGrace \/ CycleLaunch
    \/ CyclePoll \/ WorkerFinish
    \/ MonitorPrune \/ MonitorLock \/ (\E s \in StreamNames : MonitorCheck(s))
    \/ MonitorLaunch \/ MonitorPoll \/ MonitorUnlock
    \/ Signal \/ ShutdownCleanup \/ ShutdownForceKill
    \/ ProcExit

SpecShutdown == Init /\ [][NextShutdown]_vars

\* The cycle alone, on streams maps with one and with two recorded streams
InitCycle == InitOn({CatalogA, CatalogB, CatalogC}) /\ InitIdleRetention

NextCycle ==
    \/ CycleBegin \/ CycleNext \/ CycleTerm \/ CycleGrace \/ CycleLaunch
    \/ CyclePoll \/ WorkerFinish \/ ProcExit

SpecCycle == InitCycle /\ [][NextCycle]_vars

\* ------------------------------------------- clean_camera_folders
\* The files of one stream directory, in the order glob lists them: each
\* [id, mtime, size], the modification times distinct.
RECURSIVE SumSizes(_)
SumSizes(fs) == IF fs = << >> THEN 0 ELSE Head(fs).size + SumSizes(Tail(fs))

FileIds(fs) == {fs[i].id : i \in 1..Len(fs)}

\* The position of the oldest file of a non-empty listing
OldestIndex(fs) ==
    CHOOSE i \in 1..Len(fs) : \A j \in 1..Len(fs) : fs[i].mtime <= fs[j].mtime

RemoveAt(fs, i) == SubSeq(fs, 1, i - 1) \o SubSeq(fs, i + 1, Len(fs))

\* A listing left in the order glob gave it
ListingOrder(fs) == fs

\* sorted(..., key=lambda f: f.stat().st_mtime) (line 412)
RECURSIVE SortByMtime(_)
SortByMtime(fs) ==
    IF fs = << >> THEN << >>
    ELSE << fs[OldestIndex(fs)] >> \o SortByMtime(RemoveAt(fs, OldestIndex(fs)))

\* A loop that stops while one unit is still to be freed
SpaceFreedEarly(to_free) == to_free <= 1

\* space_to_free_gb <= 0 (line 418)
SpaceFreed(to_free) == to_free <= 0

Listings(n) ==
    LET mtimes == {m \in [1..n -> 1..n] : \A i, j \in 1..n : i # j => m[i] # m[j]}
    IN  {[i \in 1..n |-> [id |-> i, mtime |-> m[i], size |-> z[i]]] :
            m \in mtimes, z \in [1..n -> 1..MaxSize]}

retUnch == UNCHANGED << supVars, cfgVars, relVars >>

\* A pass that gives up at the first directory it cannot size or sort
SkipAbortsPass == "pruned"

\* The continue of lines 406 and 415: the directory is left and the loop
\* of line 397 goes on
AfterSkip == "done"

\* lines 397-415 for one stream directory: its quota, its size, and, when
\* it is over quota, its files sorted by modification time; an error in
\* the sizing or the sorting makes the pass leave the directory alone
RetStart ==
    /\ ret_pc = "idle" /\ ret.cam # "" /\ cleanup_workers > 0
    /\ \E outcome \in {"ok", "size_error", "sort_error"} :
        LET quota == QuotaGet(camera_quotas_gb, ret.cam, target_size_gb)
            to_free == SumSizes(files) - quota
        IN  IF outcome = "size_error" \/ (outcome = "sort_error" /\ to_free > 0)
            THEN /\ ret' = [ret EXCEPT !.quota = quota, !.skipped = TRUE,
                                       !.visited = @ \cup {ret.cam},
                                       !.errors = @ \cup {ret.cam}]
                 /\ ret_pc' = AfterSkip
            ELSE IF to_free > 0
                 THEN /\ outcome = "ok"
                      /\ ret' = [ret EXCEPT !.quota = quota, !.to_free = to_free,
                                            !.order = SortByMtime(files), !.i = 1,
                                            !.visited = @ \cup {ret.cam}]
                      /\ ret_pc' = "delete"
                 ELSE /\ outcome = "ok"
                      /\ ret' = [ret EXCEPT !.quota = quota, !.to_free = to_free,
                                            !.visited = @ \cup {ret.cam}]
                      /\ ret_pc' = "done"
    /\ UNCHANGED << files, dirs, pending >>
    /\ retUnch

\* lines 417-426: one turn of the loop over the sorted files; a stat or
\* an unlink that raises leaves the file and the space to free as they are
RetDelete ==
    /\ ret_pc = "delete"
    /\ IF ret.i > Len(ret.order) \/ SpaceFreed(ret.to_free)
       THEN /\ ret_pc' = "done"
            /\ UNCHANGED << ret, files >>
       ELSE LET f == ret.order[ret.i]
            IN  \E deleted \in BOOLEAN :
                  /\ files' = IF deleted
                              THEN SelectSeq(files, LAMBDA g : g.id # f.id)
                              ELSE files
                  /\ ret' = [ret EXCEPT
                                !.i = @ + 1,
                                !.tried = @ \cup {f.id},
                                !.failed = IF deleted THEN @ ELSE @ \cup {f.id},
                                !.to_free = IF deleted THEN @ - f.size ELSE @]
                  /\ UNCHANGED ret_pc
    /\ UNCHANGED << dirs, pending >>
    /\ retUnch

\* line 397: the loop over base_dir.iterdir() comes to its next directory
RetNextDir ==
    /\ ret_pc = "done" /\ pending # << >>
    /\ files' = Head(pending).files
    /\ pending' = Tail(pending)
    /\ ret' = [ret EXCEPT !.cam = Head(pending).cam, !.quota = 0,
                          !.order = << >>, !.i = 0, !.to_free = 0,
                          !.tried = {}, !.failed = {},
                          !.initial = Head(pending).files, !.skipped = FALSE]
    /\ ret_pc' = "idle"
    /\ UNCHANGED dirs
    /\ retUnch

\* A guard that lets a directory one second short of the minimum age go
AgeBelowLenient(age) == age + 1 < MinAge

\* line 432: folder_age < min_age_seconds
AgeBelow(age) == age < MinAge

\* lines 428-439: one directory of the walk. Its age is counted from the
\* time the pass began (line 396) to its st_ctime; a directory old enough
\* and empty is removed, unless rmdir raises
RetWalk ==
    /\ ret_pc = "done" /\ pending = << >>
    /\ IF \A d \in dirs : d.id \in ret.seen
       THEN /\ ret_pc' = "pruned"
            /\ UNCHANGED << ret, dirs >>
       ELSE \E d \in dirs :
              /\ d.id \notin ret.seen
              /\ ret' = [ret EXCEPT !.seen = @ \cup {d.id}]
              /\ IF AgeBelow(ret.now - d.ctime) \/ ~d.empty
                 THEN UNCHANGED dirs
                 ELSE \E removed \in BOOLEAN :
                         dirs' = IF removed THEN dirs \ {d} ELSE dirs
              /\ UNCHANGED ret_pc
    /\ UNCHANGED << files, pending >>
    /\ retUnch

\* A retention pass has been triggered on a storage root with one stream
\* directory.
InitRetention ==
    /\ InitSupervisor
    /\ cleanup_in_progress = TRUE /\ cleanup_workers = 1 /\ trigger_log = "spawned"
    /\ \E cat \in {CatalogB, CatalogC} :
         /\ \E size \in (IF cat = CatalogC THEN 0..MaxQuota ELSE {1}) :
               InitSettingsWith(cat, size)
         /\ InitIdleReload(cat)
    /\ cyc_cfg = Settings
    /\ rel_prev = Settings
    /\ ret_pc = "idle"
    /\ dirs = {}
    /\ pending = << >>
    /\ \E n \in 0..MaxFiles : files \in Listings(n)
    /\ \E cam \in StreamNames : ret = [NoRet EXCEPT !.cam = cam, !.initial = files]

NextRetention == RetStart \/ RetDelete \/ RetWalk \/ WorkerFinish

SpecRetention == InitRetention /\ [][NextRetention]_vars

\* The st_ctime of a directory, in seconds before the start of the pass:
\* a second more than the minimum age, the minimum age, a second less, and
\* created as the pass began
CtimeSamples == {0 - MinAge - 1, 0 - MinAge, 1 - MinAge, 0}

DirTrees(n) ==
    {{[id |-> i, ctime |-> c[i], empty |-> e[i]] : i \in 1..n} :
        c \in [1..n -> CtimeSamples], e \in [1..n -> BOOLEAN]}

\* A retention pass on a storage root with an empty stream directory and
\* at most MaxDirs date directories; time goes on during the pass
InitPrune ==
    /\ InitSupervisor
    /\ cleanup_in_progress = TRUE /\ cleanup_workers = 1 /\ trigger_log = "spawned"
    /\ InitSettings(CatalogC) /\ InitIdleReload(CatalogC)
    /\ cyc_cfg = Settings
    /\ rel_prev = Settings
    /\ ret_pc = "idle"
    /\ files = << >>
    /\ pending = << >>
    /\ \E n \in 0..MaxDirs : dirs \in DirTrees(n)
    /\ ret = [NoRet EXCEPT !.cam = "cam2"]

NextPrune == RetStart \/ RetWalk \/ WorkerFinish \/ Tick

SpecPrune == InitPrune /\ [][NextPrune]_vars

\* The files of a directory listed oldest first, of any sizes
SortedListings(n) ==
    {[i \in 1..n |-> [id |-> i, mtime |-> i, size |-> z[i]]] :
        z \in [1..n -> 1..MaxSize]}

\* A retention pass on a storage root with the directories of two streams,
\* visited in either order, and one old empty date directory
InitPass ==
    /\ InitSupervisor
    /\ cleanup_in_progress = TRUE /\ cleanup_workers = 1 /\ trigger_log = "spawned"
    /\ InitSettings(CatalogB) /\ InitIdleReload(CatalogB)
    /\ cyc_cfg = Settings
    /\ rel_prev = Settings
    /\ ret_pc = "idle"
    /\ dirs = {[id |-> 1, ctime |-> 0 - MinAge, empty |-> TRUE]}
    /\ \E n \in 0..MaxPassFiles : files \in Listings(n)
    /\ \E first \in StreamNames, m \in 0..MaxPassFiles :
         \E later \in SortedListings(m) :
           /\ ret = [NoRet EXCEPT !.cam = first, !.initial = files]
           /\ pending = << [cam |-> CHOOSE c \in StreamNames : c # first,
                            files |-> later] >>

NextPass == RetStart \/ RetDelete \/ RetNextDir \/ RetWalk \/ WorkerFinish

SpecPass == InitPass /\ [][NextPass]_vars

\* ------------------------------------- reload_config, on_modified
\* The primary configurations an edit may leave on disk
PrimaryContents ==
    { PrimaryFile("ok", "/rec2", "rtsp://srv2", Num(2), "g2.yaml"),
      PrimaryFile("ok", "/rec2", "rtsp://srv2", Absent, "g1.yaml"),
      PrimaryFile("ok", "/rec2", Missing, Num(2), "g2.yaml"),
      PrimaryFile("ok", "/rec2", "rtsp://srv2", Text, "g2.yaml"),
      PrimaryFile("unreadable", Missing, Missing, Absent, Missing) }

\* The streams configurations an edit may leave on disk
Go2rtcContents == {GoodFile(CatalogA), GoodFile(CatalogB), BadFile}

\* A readable file whose 'streams' value is a list
ListFile == GoodFile(ListShaped)

relUnch == UNCHANGED << supVars, retVars >>

\* The primary configuration file is modified; the watchdog thread calls
\* on_modified, which calls reload_config (lines 558-560)
EditPrimary ==
    /\ shut # "exited" /\ rel_pc = "idle" /\ reloads < MaxReloads
    /\ \E content \in PrimaryContents :
         disk' = [disk EXCEPT !.primary = content]
    /\ reloads' = reloads + 1
    /\ rel_prev' = Settings
    /\ rel_pc' = "reload"
    /\ rel_log' = "none"
    /\ UNCHANGED cfgVars
    /\ relUnch

\* A streams configuration file is modified; on_modified handles the event
\* only of the file self.go2rtc_config_path names now (lines 562-563)
EditGo2rtcTo(contents) ==
    /\ shut # "exited" /\ rel_pc = "idle" /\ reloads < MaxReloads
    /\ \E path \in Go2rtcPaths, content \in contents :
         /\ disk' = [disk EXCEPT !.go2rtc[path] = content]
         /\ rel_pc' = IF path = go2rtc_config_path THEN "load" ELSE "idle"
    /\ reloads' = reloads + 1
    /\ rel_prev' = Settings
    /\ rel_log' = "none"
    /\ UNCHANGED cfgVars
    /\ relUnch

EditGo2rtc == EditGo2rtcTo(Go2rtcContents)

\* The streams file is saved with a list under 'streams'
EditMalformed == EditGo2rtcTo({ListFile})

\* float(new_config.get('target_size_gb', 0.0))
TargetSize(v) == IF v.kind = "num" THEN v.n ELSE 0

\* reload_config, lines 175-180, and the except of 185-186: the file is
\* read and the settings are assigned one after the other, up to the first
\* that raises
ReloadRead ==
    /\ shut # "exited" /\ rel_pc = "reload"
    /\ LET new == disk.primary
           readable == new.state = "ok"
           has_dir == readable /\ new.base_dir # Missing
           has_server == has_dir /\ new.stream_server # Missing
           has_size == has_server /\ new.target_size_gb.kind # "text"
           has_path == has_size /\ new.go2rtc_config_path # Missing
       IN  /\ base_dir' = IF has_dir THEN new.base_dir ELSE base_dir
           /\ stream_server' = IF has_server THEN new.stream_server ELSE stream_server
           /\ target_size_gb' = IF has_size THEN TargetSize(new.target_size_gb)
                                ELSE target_size_gb
           /\ go2rtc_config_path' = IF has_path THEN new.go2rtc_config_path
                                    ELSE go2rtc_config_path
           /\ rel_pc' = IF has_path THEN "load" ELSE "idle"
           /\ rel_log' = IF has_path THEN rel_log ELSE "failed"
    /\ UNCHANGED << go2rtc_config, camera_quotas_gb, disk, reloads, rel_prev >>
    /\ relUnch

\* load_go2rtc_config and the assignment of its result (line 181, lines
\* 565-566); a file that cannot be loaded raises
ReloadLoadStreams ==
    /\ shut # "exited" /\ rel_pc = "load"
    /\ LET file == disk.go2rtc[go2rtc_config_path]
       IN  IF file.state = "ok"
           THEN /\ go2rtc_config' = file.streams
                /\ rel_pc' = "quotas"
                /\ UNCHANGED rel_log
           ELSE /\ rel_pc' = "idle"
                /\ rel_log' = "failed"
                /\ UNCHANGED go2rtc_config
    /\ UNCHANGED << base_dir, stream_server, target_size_gb, go2rtc_config_path,
                    camera_quotas_gb, disk, reloads, rel_prev >>
    /\ relUnch

\* the quotas are rebuilt from the new streams map (line 183, line 567);
\* streams.items() (line 151) raises on a value that is no mapping, after
\* the map itself has been assigned
ReloadBuildQuotas ==
    /\ shut # "exited" /\ rel_pc = "quotas"
    /\ IF IsMapping(go2rtc_config)
       THEN /\ camera_quotas_gb' = BuildCameraQuotas(go2rtc_config)
            /\ rel_log' = "reloaded"
       ELSE /\ rel_log' = "failed"
            /\ UNCHANGED camera_quotas_gb
    /\ rel_pc' = "idle"
    /\ UNCHANGED << base_dir, stream_server, target_size_gb, go2rtc_config_path,
                    go2rtc_config, disk, reloads, rel_prev >>
    /\ relUnch

\* The cycle and the encoders beside the watchdog thread
InitReload == InitOn({CatalogA}) /\ InitIdleRetention

NextReload ==
    \/ CycleBegin \/ CycleNext \/ CycleTerm \/ CycleGrace \/ CycleLaunch
    \/ CyclePoll \/ ProcExit
    \/ EditPrimary \/ EditGo2rtc \/ ReloadRead \/ ReloadLoadStreams
    \/ ReloadBuildQuotas

SpecReload == InitReload /\ [][NextReload]_vars

\* The streams file is saved with the quota of cam1 set to 0, or with
\* cam1 removed
EditCatalog == EditGo2rtcTo({GoodFile(CatalogB), GoodFile(CatalogC)})

\* The cycle, the monitor and the encoders beside such a reload
NextDisable ==
    \/ CycleBegin \/ CycleNext \/ CycleTerm \/ CycleGrace \/ CycleLaunch
    \/ CyclePoll
    \/ MonitorPrune \/ MonitorLock \/ (\E s \in StreamNames : MonitorCheck(s))
    \/ MonitorLaunch \/ MonitorPoll \/ MonitorUnlock
    \/ ProcExit
    \/ EditCatalog \/ ReloadLoadStreams \/ ReloadBuildQuotas

SpecDisable == InitReload /\ [][NextDisable]_vars

\* ------------------------------------------- the catalog derivations
HostNames == << "h1", "h2", "h3", "h4" >>


\* Addresses that differ in their quota directives
QuotaParams ==
    {Absent, Empty, Text, Num(0), Num(2)} \X {Absent, Num(1)}
        \X {Absent, Text, Num(0 - 1), Num(3)}

QuotaUri(i, prm) == UriWith("rtsp", HostNames[i], prm[1], prm[2], prm[3])

\* The lists of k such addresses
QuotaLists(k) ==
    {[i \in 1..k |-> QuotaUri(i, f[i])] : f \in [1..k -> QuotaParams]}

\* Addresses that differ in their scheme
SchemeParams == {"rtsp", "https", "ffmpeg", "exec"}

SchemeUri(i, scheme) == Uri(scheme, HostNames[i], Absent, Num(1))

\* The lists of k such addresses
SchemeLists(k) ==
    {[i \in 1..k |-> SchemeUri(i, f[i])] : f \in [1..k -> SchemeParams]}

OneStream(uris) == << [name |-> "cam1", uris |-> uris] >>


\* __init__, line 120: the quotas are built from the loaded streams map
BuildQuotas ==
    /\ main_pc = "init"
    /\ camera_quotas_gb' = BuildCameraQuotas(go2rtc_config)
    /\ main_pc' = "idle"
    /\ UNCHANGED << base_dir, stream_server, target_size_gb,
                    go2rtc_config_path, go2rtc_config >>
    /\ UNCHANGED << supVarsButMain, relVars, retVars >>

\* The constructor has loaded a streams map and not yet built the quotas;
\* one cycle, the start-up cycle, follows
InitCatalog ==
    /\ InitSupervisorAt(0, "init", MaxCycles - 1)
    /\ InitCleanupIdle
    /\ \E k \in 0..MaxUris, kind \in {"quota", "scheme"} :
       \E l \in (IF kind = "quota" THEN QuotaLists(k) ELSE SchemeLists(k)) :
         /\ base_dir = "/rec1"
         /\ stream_server = "rtsp://srv1"
         /\ target_size_gb = 1
         /\ go2rtc_config_path = "g1.yaml"
         /\ go2rtc_config = OneStream(l)
         /\ camera_quotas_gb = [s \in StreamNames |-> NoKey]
         /\ InitIdleReload(OneStream(l))
    /\ cyc_cfg = Settings /\ rel_prev = Settings
    /\ InitIdleRetention

NextCatalog ==
    BuildQuotas \/ CycleBegin \/ CycleNext \/ CycleLaunch \/ CyclePoll

SpecCatalog == InitCatalog /\ [][NextCatalog]_vars

\* ------------------------------------- main: the start-up boundary
\* The wall clock of this part counts ticks from the start of the hour.
\* A variant that rounds the minute up to a multiple of ten
NextMinuteRounded(minute) == (((minute + 9) \div 10) * 10) % 60

\* line 657
NextMinute(minute) == ((minute \div 10 + 1) * 10) % 60

\* lines 658-661: next_run, in minutes from the start of the current hour
NextRun(minute) ==
    IF NextMinute(minute) <= minute THEN NextMinute(minute) + 60
    ELSE NextMinute(minute)

\* line 662: (next_run - now).total_seconds(), in ticks
RemainingTime(now) == NextRun(MinuteOf(now)) * TicksPerMinute - now

\* The seconds of the minute at which the model starts main
StartSeconds == {0, 59}

StartTimes ==
    {(m * 60 + sec) * TicksPerSec + f :
        m \in 0..59, sec \in StartSeconds, f \in 0..(TicksPerSec - 1)}

\* line 665: recorder.record_streams(int(remaining_time))
StartupCycle ==
    /\ cycles = 0
    /\ CycleBeginWith(IntSeconds(RemainingTime(clock)))

InitBoundary ==
    /\ \E now \in StartTimes : InitSupervisorAt(now, "idle", 0)
    /\ InitCleanupIdle
    /\ InitSettings(CatalogC) /\ InitIdleReload(CatalogC)
    /\ cyc_cfg = Settings /\ rel_prev = Settings
    /\ InitIdleRetention

NextBoundary == StartupCycle \/ CycleNext \/ CycleLaunch \/ CyclePoll

SpecBoundary == InitBoundary /\ [][NextBoundary]_vars

\* The scheduler loop of main (lines 670-675) while the streams file is
\* edited into a list
NextSchedule ==
    \/ CycleBegin \/ CycleNext \/ CycleTerm \/ CycleGrace \/ CycleLaunch
    \/ CyclePoll \/ ProcExit
    \/ EditMalformed \/ ReloadLoadStreams \/ ReloadBuildQuotas
    \/ CycleRaises \/ ShutdownCleanup \/ ShutdownForceKill

SpecSchedule == InitReload /\ [][NextSchedule]_vars

\* ------------------------------------------------------------ claims

\* C1: in every reachable state each stream name has at most one live
\* recording process launched by the supervisor, whether or not the live
\* map still refers to it.
C1_AtMostOneLiveProcess ==
    \A s \in StreamNames : Cardinality(LiveProcs(s)) <= 1

\* A step of the monitor thread
MonitorStep == mon_pc' # mon_pc \/ mon' # mon

\* C2: whenever the monitor disposes of the handle of a process that has
\* exited with more than the restart threshold left of its planned window,
\* it replaces the handle in place: the stream keeps a handle, of a fresh
\* live process, with a fresh start time and a duration that covers the
\* time left (rounded up to whole seconds); the handle is never just
\* dropped.
C2_ExitAboveThresholdRestarts ==
    [][\A s \in StreamNames :
          ( /\ MonitorStep
            /\ HasEntry(active_processes, s)
            /\ Exited(active_processes[s].process)
            /\ RemainingTicks(active_processes[s]) > RestartThreshold * TicksPerSec
            /\ active_processes'[s] # active_processes[s] )
          => ( /\ HasEntry(active_processes', s)
               /\ active_processes'[s].process # active_processes[s].process
               /\ procs'[active_processes'[s].process].alive
               /\ active_processes'[s].start_time = clock
               /\ active_processes'[s].duration * TicksPerSec
                     >= RemainingTicks(active_processes[s]) )]_vars

\* The monitor examines the entry of s in this step: the prune before the
\* loop, or the loop's turn for s
MonitorExamines(s) ==
    \/ mon_pc = "prune" /\ mon_pc' = "lock"
    \/ /\ mon_pc = "loop" /\ s \in mon.todo
       /\ (s \notin mon'.todo \/ mon'.stream = s)

\* C3: whenever the monitor observes that a stored process has exited with
\* at most the restart threshold left of its planned window, it starts no
\* replacement and the stream's handle is removed from the live map.
C3_ExitBelowThresholdCompletes ==
    [][\A s \in StreamNames :
          ( /\ MonitorExamines(s)
            /\ HasEntry(active_processes, s)
            /\ Exited(active_processes[s].process)
            /\ RemainingTicks(active_processes[s]) <= RestartThreshold * TicksPerSec )
          => ( /\ ~HasEntry(active_processes', s)
               /\ procs' = procs
               /\ mon_pc' # "launch" )]_vars

\* C3 witness: the loop has found an exited process at or below the
\* threshold, logged the recording as completed and removed the handle.
C3_Witness ==
    /\ mon_log.msg = "completed"
    /\ ~HasEntry(active_processes, mon_log.stream)
    /\ \E p \in ProcIds : procs[p].stream = mon_log.stream /\ ~procs[p].alive

\* C6: at most one retention pass runs at any time: no trigger, whenever
\* it comes, brings a second worker to life beside one in flight.
C6_SingleRetentionPass == cleanup_workers <= 1

\* C6 witness: a trigger has found a pass in flight and returned at once.
C6_Witness ==
    trigger_log = "noop" /\ cleanup_workers = 1 /\ cleanup_in_progress

\* C7: at shutdown every process that is still alive after the grace wait
\* that follows the graceful signal is sent the forced kill before the
\* supervisor exits.
C7_SurvivorsAreKilled ==
    [][(shut = "sleep" /\ shut' = "exited")
         => \A p \in ProcIds :
               (procs[p].alive /\ procs[p].sig = "term") => procs'[p].sig = "kill"]_vars


\* The loop of the running cycle has gone through all its streams
CycleLoopOver == main_pc = "next" /\ cyc.i > Len(cyc.streams)

\* C8: within one cycle a stream whose start fails (the launch raises, or
\* the process has exited at the liveness check) gets no handle for that
\* dead process, and every other stream with a positive quota is still
\* attempted and, if its process is alive at the check, stored.
C8_StartFailureIsolated ==
    [][ /\ \A s \in StreamNames :
             (cyc_res'[s].r = "failed" /\ cyc_res'[s].p # 0)
                => ~InMap(active_processes', cyc_res'[s].p)
        /\ CycleLoopOver =>
             \A k \in 1..Len(cyc.streams) :
                IF QuotaGet(camera_quotas_gb, cyc.streams[k], 0) > 0
                THEN cyc_res[cyc.streams[k]].r \in {"failed", "stored"}
                ELSE cyc_res[cyc.streams[k]].r = "skipped"
        /\ (main_pc = "poll" /\ main_pc' = "next" /\ ~Exited(cyc.proc))
             => active_processes'[CycStream].process = cyc.proc ]_vars

\* C8 witness: the loop is over, the start of one stream failed on a
\* process that died at once, and a later stream's process is stored.
C8_Witness ==
    /\ CycleLoopOver
    /\ \E j, k \in 1..Len(cyc.streams) :
         /\ j < k
         /\ cyc_res[cyc.streams[j]].r = "failed"
         /\ cyc_res[cyc.streams[j]].p # 0
         /\ ~InMap(active_processes, cyc_res[cyc.streams[j]].p)
         /\ cyc_res[cyc.streams[k]].r = "stored"
         /\ active_processes[cyc.streams[k]].process = cyc_res[cyc.streams[k]].p


\* The files the pass has removed from the directory
DeletedIds == FileIds(ret.initial) \ FileIds(files)

\* Every file left is a file that was there when the pass started, as it was
OnlyWholeFilesGone ==
    \A i \in 1..Len(files) : \E j \in 1..Len(ret.initial) : files[i] = ret.initial[j]

\* The files of ids are older than every other file the pass started with
OldestFirst(ids) ==
    \A i, j \in 1..Len(ret.initial) :
        (ret.initial[i].id \in ids /\ ret.initial[j].id \notin ids)
            => ret.initial[i].mtime < ret.initial[j].mtime

\* C4 as stated: for a quota q > 0, when the pass over a stream directory
\* finishes, the directory's total size is at most q or it holds at most
\* one file, and only whole files have been deleted.
C4_PassEndsWithinQuota ==
    (ret_pc = "done" /\ ret.quota > 0)
        => /\ SumSizes(files) <= ret.quota \/ Len(files) <= 1
           /\ OnlyWholeFilesGone

\* C4 amended: for a quota q > 0, when the pass over a stream directory
\* finishes without an error in sizing or sorting it, the directory's total
\* size is at most q or every file left in it is one whose deletion the
\* pass attempted and failed; only whole files have been deleted.
C4_PassEndsWithinQuotaOrFailed ==
    (ret_pc = "done" /\ ret.quota > 0 /\ ~ret.skipped)
        => /\ SumSizes(files) <= ret.quota \/ FileIds(files) \subseteq ret.failed
           /\ OnlyWholeFilesGone

\* C4 witness: a pass is over that deleted a file, failed on others, and
\* left more than one file and more than the quota.
C4_Witness ==
    /\ ret_pc = "done" /\ ret.quota > 0 /\ ~ret.skipped
    /\ DeletedIds # {}
    /\ Len(files) >= 2 /\ SumSizes(files) > ret.quota
    /\ FileIds(files) \subseteq ret.failed

\* C5 as stated: the set of files a pass deletes is exactly a prefix of
\* the files in ascending modification time, also when the deletion of a
\* file fails and is skipped.
C5_DeletedIsOldestPrefix == ret_pc = "done" => OldestFirst(DeletedIds)

\* C5 amended: the files a pass attempts to delete are exactly a prefix of
\* the files in ascending modification time, and the files it deletes are
\* that prefix less those whose deletion failed; with no failure the
\* deleted set is the prefix itself.
C5_AttemptedIsOldestPrefix ==
    /\ OldestFirst(ret.tried)
    /\ DeletedIds = ret.tried \ ret.failed
    /\ ret.failed \subseteq ret.tried

\* C5 witness: a pass is over in which the deletion of a file failed and a
\* newer file was deleted.
C5_Witness ==
    /\ ret_pc = "done"
    /\ \E i, j \in 1..Len(ret.initial) :
         /\ ret.initial[i].id \in ret.failed
         /\ ret.initial[j].id \in DeletedIds
         /\ ret.initial[i].mtime < ret.initial[j].mtime


C10_FailedReloadKeepsSettings ==
    [][(rel_pc # "idle" /\ rel_pc' = "idle" /\ rel_log' = "failed")
          => Settings' = rel_prev]_vars


\* C11: a scheduled cycle (one after the start-up cycle) that raises
\* leaves the scheduler running: the supervisor has neither begun to shut
\* down nor exited.
C11_SchedulerSurvivesRaise ==
    (main_pc = "raised" /\ cycles > 1) => shut = "none"


\* The start-up cycle is running or has run
StartupBegun == cycles = 1 /\ main_pc # "idle"

\* The smallest multiple-of-ten minute strictly greater than the minute,
\* 60 standing for minute 00 of the next hour
BoundaryAfter(minute) ==
    CHOOSE b \in {10, 20, 30, 40, 50, 60} :
        /\ b > minute
        /\ \A c \in {10, 20, 30, 40, 50, 60} : c > minute => b <= c

\* Ticks from the start-up time to its boundary
ToBoundary == BoundaryAfter(MinuteOf(cyc.now)) * TicksPerMinute - cyc.now

\* C12 as stated: the time to the next ten-minute boundary is in (0, 600]
\* seconds and the start-up cycle's duration is exactly that time.
C12_StartupRunsExactRemainder ==
    StartupBegun =>
        /\ ToBoundary > 0 /\ ToBoundary <= 600 * TicksPerSec
        /\ cyc.duration * TicksPerSec = ToBoundary

\* C12: the time to the next ten-minute boundary is in (0, 600] seconds
\* and the start-up cycle's duration is that time cut down to whole
\* seconds.
C12_StartupRunsWholeSeconds ==
    StartupBegun =>
        /\ ToBoundary > 0 /\ ToBoundary <= 600 * TicksPerSec
        /\ cyc.duration * TicksPerSec <= ToBoundary
        /\ ToBoundary < (cyc.duration + 1) * TicksPerSec
        /\ \A p \in ProcIds : procs[p].duration = cyc.duration

\* Main started half a second after 57:59: the boundary is 00 of the next
\* hour and the cycle runs for 120 s
C12_Witness ==
    /\ StartupBegun
    /\ cyc.now = (57 * 60 + 59) * TicksPerSec + 1
    /\ cyc.duration = 120
    /\ \E p \in ProcIds : procs[p].duration = 120


\* The quotas have been built from the streams map
QuotasBuilt == main_pc # "init"

Cam1Uris == CatalogUris(go2rtc_config, "cam1")

\* The index of the first address of the list that q gives a positive
\* quota, 0 if there is none
FirstWith(uris, q(_)) ==
    IF \E i \in 1..Len(uris) : q(uris[i]) > 0
    THEN CHOOSE i \in 1..Len(uris) :
            q(uris[i]) > 0 /\ \A j \in 1..(i - 1) : q(uris[j]) <= 0
    ELSE 0

\* The per-address quota as stated: rec_size when present, else rec; 0
\* when that directive is absent or not a number
StatedAddressQuota(u) ==
    LET d == IF u.rec_size.kind # "absent" THEN u.rec_size ELSE u.rec
    IN  IF d.kind = "num" THEN d.n ELSE 0

\* The per-address quota of the code: the size directive (rec_size, or
\* record_size when rec_size is absent or empty) when it is a number, else
\* rec when it is a number, else 0; a negative number counts as 0
DerivedAddressQuota(u) ==
    LET size == IF u.rec_size.kind \in {"absent", "empty"} THEN u.record_size
                ELSE u.rec_size
        d == IF size.kind = "num" THEN size ELSE u.rec
    IN  IF d.kind = "num" /\ d.n > 0 THEN d.n ELSE 0

\* C13 as stated: the quota of a stream is the stated per-address quota of
\* the first address for which that is positive, 0 if there is none.
C13_QuotaIsFirstPositiveStated ==
    QuotasBuilt =>
        LET i == FirstWith(Cam1Uris, StatedAddressQuota)
        IN  camera_quotas_gb["cam1"] =
               IF i = 0 THEN 0 ELSE StatedAddressQuota(Cam1Uris[i])

\* C13: the quota of a stream is the per-address quota of the first
\* address for which that is positive, 0 if there is none, where the size
\* directive is rec_size or else record_size and rec is used whenever the
\* size directive is not a number; the derivation gives a value for every
\* list of addresses.
C13_QuotaIsFirstPositiveDerived ==
    QuotasBuilt =>
        LET i == FirstWith(Cam1Uris, DerivedAddressQuota)
        IN  /\ camera_quotas_gb["cam1"] =
                  IF i = 0 THEN 0 ELSE DerivedAddressQuota(Cam1Uris[i])
            /\ camera_quotas_gb["cam1"] >= 0

\* The first address says rec_size=<text>&rec=3 and the quota is 3
C13_Witness ==
    /\ QuotasBuilt
    /\ Len(Cam1Uris) = 2
    /\ Cam1Uris[1].rec_size = Empty /\ Cam1Uris[1].record_size = Absent
    /\ Cam1Uris[1].rec = Num(0 - 1)
    /\ Cam1Uris[2].rec_size = Text /\ Cam1Uris[2].rec = Num(3)
    /\ camera_quotas_gb["cam1"] = 3

\* The index of the first address with an accepted scheme, 0 if none
FirstAccepted(uris) ==
    IF \E i \in 1..Len(uris) : uris[i].scheme \in AcceptedSchemes
    THEN CHOOSE i \in 1..Len(uris) :
            /\ uris[i].scheme \in AcceptedSchemes
            /\ \A j \in 1..(i - 1) : uris[j].scheme \notin AcceptedSchemes
    ELSE 0

FallbackFor(s) == [via |-> "fallback", addr |-> stream_server, name |-> s]

\* C14 as stated: a process records from the first address of its stream's
\* list that has an accepted scheme, wherever it stands in the list, and
\* from the fallback address only when no address has one.
C14_InputIsFirstAcceptedOfList ==
    \A p \in ProcIds :
        LET uris == CatalogUris(go2rtc_config, procs[p].stream)
            i == FirstAccepted(uris)
        IN  procs[p].input =
               IF i = 0 THEN FallbackFor(procs[p].stream)
               ELSE [via |-> "uri", addr |-> uris[i].host, name |-> ""]

\* C14: a process records from the first address of its stream's list when
\* that address has an accepted scheme, and from the fallback address
\* otherwise, whatever the later addresses are.
C14_InputIsFirstAddressOrFallback ==
    \A p \in ProcIds :
        LET uris == CatalogUris(go2rtc_config, procs[p].stream)
        IN  procs[p].input =
               IF uris # << >> /\ uris[1].scheme \in AcceptedSchemes
               THEN [via |-> "uri", addr |-> uris[1].host, name |-> ""]
               ELSE FallbackFor(procs[p].stream)

\* A process records from the fallback address although the second
\* address of its list has an accepted scheme
C14_Witness ==
    \E p \in ProcIds :
        /\ Len(Cam1Uris) = 2
        /\ Cam1Uris[1].scheme = "ffmpeg" /\ Cam1Uris[2].scheme = "rtsp"
        /\ procs[p].input = FallbackFor("cam1")


\* The age of a directory now, in whole seconds
AgeNow(d) == (clock \div TicksPerSec) - d.ctime

\* C15: a directory that a retention pass removes is empty and at least
\* the minimum age old; one younger than that stays, empty or not.
C15_OnlyOldEmptyDirsRemoved ==
    [][\A d \in dirs \ dirs' : d.empty /\ AgeNow(d) >= MinAge]_vars

\* The pass is over: an empty directory of exactly the minimum age is gone
\* and an empty one a second younger is still there
C15_Witness ==
    /\ ret_pc = "pruned"
    /\ ret.seen = {1, 2}
    /\ dirs = {[id |-> 2, ctime |-> 1 - MinAge, empty |-> TRUE]}


\* The cycle launches a process in this step
CycleLaunches == main_pc = "launch" /\ Len(procs') > Len(procs)

\* C16: when the cycle launches the replacement of a stream, no process of
\* that stream is alive: the one of the previous cycle has been terminated
\* before, also when it ignored SIGTERM or a signal could not be delivered.
C16_OldDeadBeforeReplacement ==
    [][CycleLaunches => LiveProcs(CycStream) = {}]_vars

\* A process is launched or signalled in this step
SignalsOrLaunches ==
    \/ Len(procs') > Len(procs)
    \/ \E p \in ProcIds : procs'[p].sig # procs[p].sig

\* The step is one of the cycle, or of the monitor, working on a process
CycleWorks == main_pc \in {"term", "grace", "launch"} /\ main_pc' # main_pc
MonitorWorks == mon_pc = "launch" /\ mon_pc' # mon_pc

\* C17: neither the cycle nor the monitor launches or signals a process,
\* or waits for one, while it holds process_lock.
C17_NoProcessWorkUnderLock ==
    [][/\ (CycleWorks /\ SignalsOrLaunches) => process_lock # "main"
       /\ (MonitorWorks /\ SignalsOrLaunches) => process_lock # "monitor"]_vars

\* C18: a shutdown that has begun is never waiting for process_lock while
\* the lock is held by the frame of record_streams that the signal handler
\* interrupted, which cannot run again before the handler returns.
C18_ShutdownNotBlockedByOwnThread ==
    shut \in {"cleanup", "sleep"} => process_lock # "main"

\* C20: the single-flight flag is set only while a retention pass is
\* running.
C20_FlagOnlyWhilePassRuns == cleanup_in_progress => cleanup_workers > 0


\* A step of handle_termination that signals a process
ShutdownSignals ==
    /\ shut \in {"cleanup", "sleep"} /\ shut' # shut
    /\ \E p \in ProcIds : procs'[p].sig # procs[p].sig

\* No step of record_streams is taken
CycleStands == UNCHANGED << main_pc, cyc, cycles, cyc_res >>

OwnQuota(cam) ==
    IF cam \in CatalogNames(go2rtc_config)
    THEN FirstPositive(CatalogUris(go2rtc_config, cam)) ELSE 0

\* C21: the quota a retention pass applies to a stream directory is the
\* stream's own quota when the catalog gives it a positive one, and the
\* global default quota otherwise, whether the stream is absent from the
\* catalog or is in it without a positive quota directive.
C21_QuotaIsOwnOrDefault ==
    (ret.cam # "" /\ ret_pc # "idle") =>
        ret.quota = IF OwnQuota(ret.cam) > 0 THEN OwnQuota(ret.cam)
                    ELSE target_size_gb


\* The pass has gone through every stream directory and every directory
\* of the walk
PassWentEverywhere ==
    ret.visited = StreamNames /\ \A d \in dirs : d.id \in ret.seen

\* C22 as stated: a failure on one file (while sizing, sorting or
\* deleting) is skipped: when the pass leaves a stream directory that is
\* still over its quota it has tried every file of it, and a pass that is
\* over has gone through every stream directory and the pruning step.
C22_FailureSkipsOnlyTheFile ==
    /\ (ret_pc = "done" /\ SumSizes(files) > ret.quota)
          => ret.tried = FileIds(ret.initial)
    /\ ret_pc = "pruned" => PassWentEverywhere

\* C22: a failure on one file while deleting is skipped and the files
\* after it are still tried; a failure while sizing or sorting makes the
\* pass leave that stream directory as it is, no file of it tried; in both
\* cases a pass that is over has gone through every stream directory and
\* the pruning step.
C22_FailureSkipsFileOrDirectory ==
    /\ (ret_pc = "done" /\ ~ret.skipped /\ SumSizes(files) > ret.quota)
          => ret.tried = FileIds(ret.initial)
    /\ ret.skipped => (files = ret.initial /\ ret.tried = {})
    /\ ret_pc = "pruned" => PassWentEverywhere

\* The pass is over: the first directory could not be sized, and in the
\* second the deletion of the oldest file failed and a newer file was
\* deleted; the old empty directory is pruned
C22_Witness ==
    /\ ret_pc = "pruned"
    /\ ret.errors # {} /\ ret.cam \notin ret.errors
    /\ \E i, j \in 1..Len(ret.initial) :
         /\ ret.initial[i].id \in ret.failed
         /\ ret.initial[j].id \in DeletedIds
         /\ ret.initial[i].mtime < ret.initial[j].mtime
    /\ dirs = {}


\* A step of record_streams that reads a setting: the streams map at the
\* top, a quota at a turn of the loop, or the storage root, the streams map
\* and the server address at a launch
CycleReads ==
    /\ main_pc \in {"idle", "next", "launch"}
    /\ main_pc' # main_pc \/ cyc' # cyc

\* The settings are those of one load: the ones in effect before the
\* running reload, or the ones of a reload that has completed
WholeLoad ==
    \/ Settings = rel_prev
    \/ rel_pc = "idle" /\ rel_log = "reloaded"

\* C23: a reload swaps the global settings, the streams map and the quotas
\* at once: whenever a cycle reads a setting and no reload has failed, the
\* settings are those of one load, never part of the new load with part of
\* the old.
C23_ReadersSeeWholeLoads ==
    [][(CycleReads /\ rel_log # "failed") => WholeLoad]_vars


\* C24: when the supervisor has exited after a shutdown request, every
\* recording process it launched has exited or has been sent a signal,
\* the process of a launch that the request interrupted included.
C24_NoUnsignalledSurvivor ==
    shut = "exited" =>
        \A p \in ProcIds : procs[p].alive => procs[p].sig # "none"


\* <root>/<stream>/<Y>/<m>/<d>/<HH-MM>.mp4 of a process
OutputFile(ps, p) == << ps[p].root, ps[p].stream, ps[p].stamp >>

\* The monitor launches a process in this step
MonitorLaunches == mon_pc = "launch" /\ mon_pc' = "poll"

\* C25: a process the monitor starts for a stream is given an output file
\* that no earlier process of that stream was given, also when it starts
\* in the minute in which the earlier process started.
C25_RestartWritesNewFile ==
    [][MonitorLaunches =>
          \A p \in ProcIds :
             OutputFile(procs', Len(procs')) # OutputFile(procs, p)]_vars


\* The stream is in the current catalog with a positive quota
Recorded(s) ==
    s \in CatalogNames(go2rtc_config) /\ QuotaGet(camera_quotas_gb, s, 0) > 0

\* A reload has completed
ReloadDone == rel_pc = "idle" /\ rel_log = "reloaded"

\* The cycle launches a process in this step, and it began with the
\* settings in effect now
LaterCycleLaunches ==
    main_pc = "launch" /\ main_pc' = "poll" /\ cyc_cfg = Settings

\* C26: once a reload has completed, neither a cycle begun on the new
\* settings nor a monitor restart starts a process for a stream that is
\* not in the current catalog with a positive quota.
C26_OnlyRecordedStreamsStarted ==
    [][(ReloadDone /\ (LaterCycleLaunches \/ MonitorLaunches))
          => Recorded(procs'[Len(procs')].stream)]_vars

====
